---- MODULE Spec2Model ----
(***************************************************************************)
(* rustman-encoder: the binary heap of rust_ds/src/heap.rs and the Huffman *)
(* encoder of src/huffman.rs built on it.                                  *)
(*                                                                         *)
(* Option<T> is a sequence of length at most one: None is <<>>, Some(x) is *)
(* <<x>>.  A Vec<T> is a sequence; the code's indices are 0-based and the  *)
(* operators below keep them 0-based (At reads index i as h[i + 1]).       *)
(* BinaryHeap<T> is modelled for T = HuffmanNode, the type the program     *)
(* stores in it; its PartialOrd compares the frequency f alone.            *)
(***************************************************************************)
EXTENDS Integers, Sequences, FiniteSets, Bags, TLC

\* ------------------------------------------------------------------ bounds
MaxLen == 5
MaxHeap == 5
MaxF == 3
MaxN == 4
MaxIndex == 30

\* --------------------------------------------------------------- constants
U16Modulus == 65536

Symbols == {"a", "b", "c", "d"}
HeapChars == {"a", "b"}
HeapTypes == {"Min", "Max"}

None == <<>>
Some(x) == <<x>>

VARIABLES
    heap_type,   \* BinaryHeap.heap_type
    heap,        \* BinaryHeap.heap (the priority queue pq of build_huffman_tree)
    op,          \* the last public heap method called
    ret,         \* what that call returned (an Option)
    stored,      \* bag of the items inserted and not yet returned by pop
    v,           \* tests::test_heaps: the values to insert
    res,         \* tests::test_heaps: the values popped
    pc,          \* position in main / encode / the test
    action,      \* Config.action dispatched by main
    content,     \* the input read by read_file
    i,           \* position of the chars() fold / of the test's loops
    acc,         \* the HashMap<char, u16> of frequencies
    iter,        \* keys of acc the HashMap iterator has not yielded yet
    enc,         \* Option<(HashMap<char, String>, BinaryHeap<HuffmanNode>)>
    compressed,  \* Option of encode_string's compressed_content
    bits,        \* encode_string's bits
    decoded,     \* Option of what decode returned
    panic,       \* "" or the panic that ended the process
    before       \* SpecCall: the backing array the one call started from

vars == <<heap_type, heap, op, ret, stored, v, res, pc, action, content, i,
          acc, iter, enc, compressed, bits, decoded, panic, before>>

heapVars == <<heap_type, heap, op, ret, stored>>
testVars == <<v, res>>
encVars == <<action, content, acc, iter, enc, compressed, bits, decoded, panic>>

\* ------------------------------------------------------------ HuffmanNode
single(ch, f) == [ch |-> ch, f |-> f, l |-> None, r |-> None]

\* impl Ord / PartialOrd for HuffmanNode: the frequency alone decides.
lt(a, b) == a.f < b.f
gt(a, b) == a.f > b.f

\* ------------------------------------------------------------- BinaryHeap
At(h, k) == h[k + 1]

swap(h, a, b) == [h EXCEPT ![a + 1] = h[b + 1], ![b + 1] = h[a + 1]]

size(h) == Len(h)

peek(h) == IF Len(h) > 0 THEN Some(At(h, 0)) ELSE None

\* The parent of a right child taken as k / 2, like that of a left child.
parent_index_no_adjust(k) ==
    IF k <= 0 THEN None ELSE Some(k \div 2)

parent_index(k) ==
    IF k <= 0 THEN None
    ELSE IF k % 2 = 1 THEN Some(k \div 2)
    ELSE Some(k \div 2 - 1)

child_index(k, side) ==
    IF side = "Left" THEN (k * 2) + 1 ELSE (k * 2) + 2

comp_reversed(ht, c, o) ==
    IF ht = "Min" THEN gt(c, o) ELSE lt(c, o)

comp(ht, c, o) ==
    IF ht = "Min" THEN lt(c, o) ELSE gt(c, o)

\* The index of the child the policy prefers (the right one on a tie), or None.
get_child_left(h, ht, k) ==
    LET left_index == child_index(k, "Left")
    IN  IF left_index < Len(h) THEN Some(left_index) ELSE None

get_child(h, ht, k) ==
    LET left_index == child_index(k, "Left")
        right_index == child_index(k, "Right")
        hasLeft == left_index < Len(h)
        hasRight == right_index < Len(h)
    IN  IF ~hasLeft /\ ~hasRight THEN None
        ELSE IF hasLeft /\ ~hasRight THEN Some(left_index)
        ELSE IF ~hasLeft /\ hasRight THEN Some(right_index)
        ELSE IF comp(ht, At(h, left_index), At(h, right_index))
             THEN Some(left_index)
             ELSE Some(right_index)

RECURSIVE percolate_down_from(_, _, _)
percolate_down_from(h, ht, k) ==
    IF k * 2 < Len(h)
    THEN LET c == get_child(h, ht, k)
         IN  IF c = None THEN h
             ELSE LET child == c[1]
                      h2 == IF comp(ht, At(h, child), At(h, k))
                            THEN swap(h, k, child) ELSE h
                  IN  percolate_down_from(h2, ht, child)
    ELSE h

percolate_down_none(h, ht) == h

percolate_down(h, ht) == percolate_down_from(h, ht, 0)

RECURSIVE percolate_up_from(_, _, _)
percolate_up_from(h, ht, k) ==
    LET p == parent_index(k)
    IN  IF p = None THEN h
        ELSE LET parent == p[1]
                 h2 == IF comp(ht, At(h, k), At(h, parent))
                       THEN swap(h, k, parent) ELSE h
             IN  percolate_up_from(h2, ht, parent)

\* A single comparison with the parent, without the loop.
percolate_up_once(h, ht) ==
    LET k == Len(h) - 1
        p == parent_index(k)
    IN  IF p = None THEN h
        ELSE IF comp(ht, At(h, k), At(h, p[1])) THEN swap(h, k, p[1]) ELSE h

percolate_up(h, ht) == percolate_up_from(h, ht, Len(h) - 1)

insert(h, ht, item) == percolate_up(Append(h, item), ht)

\* pop: [heap |-> the vector afterwards, ret |-> the Option returned].
\* pop_keep_root returns the root and removes nothing.
pop_keep_root(h, ht) ==
    IF Len(h) = 0 THEN [heap |-> h, ret |-> None]
    ELSE [heap |-> h, ret |-> Some(h[1])]

pop(h, ht) ==
    IF Len(h) = 0 THEN [heap |-> h, ret |-> None]
    ELSE LET popped == h[1]
             h1 == Tail(h)                       \* heap.remove(0)
         IN  IF Len(h1) > 0
             THEN LET last == h1[Len(h1)]
                      h2 == SubSeq(h1, 1, Len(h1) - 1)   \* remove(len - 1)
                      h3 == <<last>> \o h2               \* insert(0, last)
                  IN  [heap |-> percolate_down(h3, ht), ret |-> Some(popped)]
             ELSE [heap |-> h1, ret |-> Some(popped)]

\* ---------------------------------------------------------------- huffman
EmptyMap == [x \in {} |-> 0]

Put(e, key, val) == [x \in DOMAIN e \cup {key} |-> IF x = key THEN val ELSE e[x]]

\* *counter += 1 on a u16 (wrapping, as in a release build).
IncU16(c) == (c + 1) % U16Modulus

\* One step of the chars() fold: acc.entry(c).or_insert(0) += 1.
count_char(a, c) ==
    IF c \in DOMAIN a THEN [a EXCEPT ![c] = IncU16(@)] ELSE Put(a, c, IncU16(0))

\* One iteration of the while loop of build_huffman_tree.
\* merge_no_reinsert pops the two nodes and leaves out pq.insert(p).
merge_no_reinsert(h, ht) == pop(pop(h, ht).heap, ht).heap

merge(h, ht) ==
    LET p1 == pop(h, ht)
        l == p1.ret[1]                           \* pq.pop().unwrap()
        p2 == pop(p1.heap, ht)
        r == p2.ret[1]
        p == [f |-> l.f + r.f, ch |-> None, l |-> Some(l), r |-> Some(r)]
    IN  insert(p2.heap, ht, p)

RECURSIVE recursive_encoding_same_bit(_, _, _)
recursive_encoding_same_bit(n, e, s) ==
    IF n.ch # None THEN Put(e, n.ch[1], s)
    ELSE LET e1 == IF n.l # None
                   THEN recursive_encoding_same_bit(n.l[1], e, s \o <<"0">>)
                   ELSE e
         IN  IF n.r # None
             THEN recursive_encoding_same_bit(n.r[1], e1, s)
             ELSE e1

\* The walk that goes down the left child only.
RECURSIVE recursive_encoding_left_only(_, _, _)
recursive_encoding_left_only(n, e, s) ==
    IF n.ch # None THEN Put(e, n.ch[1], s)
    ELSE IF n.l # None
         THEN recursive_encoding_left_only(n.l[1], e, s \o <<"0">>)
         ELSE e

RECURSIVE recursive_encoding(_, _, _)
recursive_encoding(n, e, s) ==
    IF n.ch # None THEN Put(e, n.ch[1], s)
    ELSE LET e1 == IF n.l # None
                   THEN recursive_encoding(n.l[1], e, s \o <<"0">>)
                   ELSE e
         IN  IF n.r # None
             THEN recursive_encoding(n.r[1], e1, s \o <<"1">>)
             ELSE e1

\* build_huffman_encoding once build_huffman_tree has returned pq = (h, ht).
build_huffman_encoding_none_on_leaf(h, ht) ==
    IF size(h) <= 1 THEN None
    ELSE Some([encodings |-> recursive_encoding(pop(h, ht).ret[1], EmptyMap, <<>>),
               tree |-> [heap_type |-> ht, heap |-> h]])

build_huffman_encoding(h, ht) ==
    IF size(h) = 0 THEN None
    ELSE LET pq_clone == [heap_type |-> ht, heap |-> h]
             root == pop(h, ht).ret[1]
         IN  Some([encodings |-> recursive_encoding(root, EmptyMap, <<>>),
                   tree |-> pq_clone])

\* The chars() fold of encode_string: None stands for the panic of
\* encoding_map.get(&c).unwrap() on a char without a code.
RECURSIVE compress(_, _)
compress(s, m) ==
    IF s = <<>> THEN Some(<<>>)
    ELSE IF s[1] \notin DOMAIN m THEN None
    ELSE LET rest == compress(Tail(s), m)
         IN  IF rest = None THEN None ELSE Some(m[s[1]] \o rest[1])

\* ------------------------------------------------- the heap, used freely
HeapItems == {single(Some(c), f) : c \in HeapChars, f \in 1..MaxF}

\* Nothing of main or encode has run.
NoEncode ==
    /\ action = "" /\ content = <<>> /\ acc = EmptyMap /\ iter = {}
    /\ enc = None /\ compressed = None /\ bits = 0 /\ decoded = None
    /\ panic = ""

\* BinaryHeap::new(heap_type)
InitHeap ==
    /\ heap_type \in HeapTypes
    /\ heap = <<>>
    /\ op = "new" /\ ret = None /\ stored = EmptyBag
    /\ before = <<>>
    /\ pc = "heap" /\ i = 0
    /\ v = <<>> /\ res = <<>>
    /\ NoEncode

Insert(item) ==
    /\ pc = "heap"
    /\ Len(heap) < MaxHeap
    /\ heap' = insert(heap, heap_type, item)
    /\ op' = "insert" /\ ret' = None
    /\ stored' = stored (+) SetToBag({item})
    /\ UNCHANGED <<heap_type, pc, i, testVars, before, encVars>>

Pop ==
    /\ pc = "heap"
    /\ LET r == pop(heap, heap_type)
       IN  /\ heap' = r.heap
           /\ ret' = r.ret
           /\ stored' = IF r.ret = None THEN stored
                        ELSE stored (-) SetToBag({r.ret[1]})
    /\ op' = "pop"
    /\ UNCHANGED <<heap_type, pc, i, testVars, before, encVars>>

Peek ==
    /\ pc = "heap"
    /\ ret' = peek(heap)
    /\ op' = "peek"
    /\ UNCHANGED <<heap_type, heap, stored, pc, i, testVars, before, encVars>>

Size ==
    /\ pc = "heap"
    /\ ret' = Some(size(heap))
    /\ op' = "size"
    /\ UNCHANGED <<heap_type, heap, stored, pc, i, testVars, before, encVars>>

NextHeap ==
    \/ \E item \in HeapItems : Insert(item)
    \/ Pop
    \/ Peek
    \/ Size

SpecHeap == InitHeap /\ [][NextHeap]_vars

\* ------------------------------------------------------ tests::test_heaps
SeqsUpTo(S, n) == UNION {[1..m -> S] : m \in 0..n}

InitTest ==
    /\ heap_type \in HeapTypes
    /\ heap = <<>>
    /\ op = "new" /\ ret = None /\ stored = EmptyBag
    /\ before = <<>>
    /\ v \in SeqsUpTo(HeapItems, MaxN)
    /\ res = <<>>
    /\ pc = "t_insert" /\ i = 0
    /\ NoEncode

\* for i in v.iter() { heap.insert(*i) }
TestInsert ==
    /\ pc = "t_insert"
    /\ i < Len(v)
    /\ heap' = insert(heap, heap_type, v[i + 1])
    /\ i' = i + 1
    /\ UNCHANGED <<heap_type, op, ret, stored, testVars, before, pc, encVars>>

TestInserted ==
    /\ pc = "t_insert"
    /\ i = Len(v)
    /\ pc' = "t_pop"
    /\ i' = 0
    /\ UNCHANGED <<heapVars, testVars, before, encVars>>

\* for _ in 0..v.len() { res.push(heap.pop().unwrap()) }
TestPop ==
    /\ pc = "t_pop"
    /\ i < Len(v)
    /\ LET r == pop(heap, heap_type)
       IN  IF r.ret = None
           THEN /\ pc' = "panic"
                /\ panic' = "unwrap on None (heap.rs:247)"
                /\ UNCHANGED <<heap, res, i>>
           ELSE /\ heap' = r.heap
                /\ res' = Append(res, r.ret[1])
                /\ i' = i + 1
                /\ UNCHANGED <<pc, panic>>
    /\ UNCHANGED <<heap_type, op, ret, stored, v, before, action, content, acc, iter,
                   enc, compressed, bits, decoded>>

TestPopped ==
    /\ pc = "t_pop"
    /\ i = Len(v)
    /\ pc' = "t_done"
    /\ UNCHANGED <<heapVars, testVars, before, i, encVars>>

NextTest ==
    \/ TestInsert
    \/ TestInserted
    \/ TestPop
    \/ TestPopped

SpecTest == InitTest /\ [][NextTest]_vars

\* ------------------------------------------------------- main and encode
Contents == SeqsUpTo(Symbols, MaxLen)

Started ==
    /\ heap_type = "Min" /\ heap = <<>>
    /\ op = "new" /\ ret = None /\ stored = EmptyBag
    /\ before = <<>>
    /\ v = <<>> /\ res = <<>>
    /\ pc = "main" /\ i = 0
    /\ action = "" /\ acc = EmptyMap /\ iter = {}
    /\ enc = None /\ compressed = None /\ bits = 0 /\ decoded = None
    /\ panic = ""

Init ==
    /\ content \in Contents
    /\ Started

\* main: "encode" => encode(..): read_file, then encode_string up to the
\* start of the chars() fold of build_huffman_tree.
Encode ==
    /\ pc = "main"
    /\ action' = "encode"
    /\ bits' = Len(content) * 8
    /\ acc' = EmptyMap
    /\ i' = 0
    /\ pc' = "count"
    /\ UNCHANGED <<heapVars, testVars, before, content, iter, enc, compressed,
                   decoded, panic>>

CountChar ==
    /\ pc = "count"
    /\ i < Len(content)
    /\ acc' = count_char(acc, content[i + 1])
    /\ i' = i + 1
    /\ UNCHANGED <<heapVars, testVars, before, pc, action, content, iter, enc,
                   compressed, bits, decoded, panic>>

\* The fold is over: .iter() on the HashMap, folded into BinaryHeap::default().
Counted ==
    /\ pc = "count"
    /\ i = Len(content)
    /\ iter' = DOMAIN acc
    /\ heap' = <<>>
    /\ heap_type' = "Min"
    /\ pc' = "fill"
    /\ UNCHANGED <<op, ret, stored, testVars, before, i, action, content, acc, enc,
                   compressed, bits, decoded, panic>>

\* The HashMap yields its entries in an order of its own.
InsertLeaf(c) ==
    /\ pc = "fill"
    /\ c \in iter
    /\ heap' = insert(heap, heap_type, single(Some(c), acc[c]))
    /\ iter' = iter \ {c}
    /\ UNCHANGED <<heap_type, op, ret, stored, testVars, before, pc, i, action,
                   content, acc, enc, compressed, bits, decoded, panic>>

Filled ==
    /\ pc = "fill"
    /\ iter = {}
    /\ pc' = "merge"
    /\ UNCHANGED <<heapVars, testVars, before, i, encVars>>

\* while pq.size() > 1 { .. }
Merge ==
    /\ pc = "merge"
    /\ size(heap) > 1
    /\ heap' = merge(heap, heap_type)
    /\ UNCHANGED <<heap_type, op, ret, stored, testVars, before, pc, i, encVars>>

\* build_huffman_tree returns pq; the rest of build_huffman_encoding.
BuildEncoding ==
    /\ pc = "merge"
    /\ size(heap) <= 1
    /\ enc' = build_huffman_encoding(heap, heap_type)
    /\ heap' = pop(heap, heap_type).heap
    /\ pc' = "built"
    /\ UNCHANGED <<heap_type, op, ret, stored, testVars, before, i, action, content,
                   acc, iter, compressed, bits, decoded, panic>>

\* encode_string from the unwrap of line 130 to its end.
EncodeString ==
    /\ pc = "built"
    /\ IF enc = None
       THEN /\ pc' = "panic"
            /\ panic' = "unwrap on None (huffman.rs:130)"
            /\ UNCHANGED <<compressed, bits>>
       ELSE LET compressed_content == compress(content, enc[1].encodings)
            IN  IF compressed_content = None
                THEN /\ pc' = "panic"
                     /\ panic' = "unwrap on None (huffman.rs:133)"
                     /\ UNCHANGED <<compressed, bits>>
                ELSE /\ compressed' = compressed_content
                     /\ bits' = Len(compressed_content[1])
                     /\ pc' = "encoded"
                     /\ UNCHANGED panic
    /\ UNCHANGED <<heapVars, testVars, before, i, action, content, acc, iter, enc,
                   decoded>>

\* main: "decode" => decode(..), which is todo!().  It is run on its own or
\* on what an earlier encode printed.
Decode ==
    /\ pc \in {"main", "encoded"}
    /\ action' = "decode"
    /\ pc' = "panic"
    /\ panic' = "not yet implemented (huffman.rs:149)"
    /\ UNCHANGED <<heapVars, testVars, before, i, content, acc, iter, enc,
                   compressed, bits, decoded>>

Next ==
    \/ Encode
    \/ CountChar
    \/ Counted
    \/ \E c \in Symbols : InsertLeaf(c)
    \/ Filled
    \/ Merge
    \/ BuildEncoding
    \/ EncodeString
    \/ Decode

Spec == Init /\ [][Next]_vars

\* -------------------------------------- the scenario {a: 4, b: 3, c: 2}
Count(s, x) == Cardinality({k \in 1..Len(s) : s[k] = x})

ScenarioText == <<"a", "a", "a", "a", "b", "b", "b", "c", "c">>

\* Every text with the frequency table of "aaaabbbcc".
ScenarioContents ==
    {s \in [1..Len(ScenarioText) -> {"a", "b", "c"}] :
        \A x \in {"a", "b", "c"} : Count(s, x) = Count(ScenarioText, x)}

InitScenario ==
    /\ content \in ScenarioContents
    /\ Started

SpecScenario == InitScenario /\ [][Next]_vars

\* --------------------------------------------------- long inputs, by runs
\* A text too long to write out char by char is a sequence of runs
\* [ch |-> c, n |-> n]: n copies of c.  The runs are folded a run at a time.
LongSymbols == {"a", "b", "c", "d", "e", "f", "g", "h", "i", "j"}

Run(c, n) == [ch |-> c, n |-> n]

RECURSIVE TotalLen(_)
TotalLen(runs) ==
    IF runs = <<>> THEN 0 ELSE runs[1].n + TotalLen(Tail(runs))

RECURSIVE Occurrences(_, _)
Occurrences(runs, c) ==
    IF runs = <<>> THEN 0
    ELSE (IF runs[1].ch = c THEN runs[1].n ELSE 0) + Occurrences(Tail(runs), c)

\* n copies of a, then b once, c twice, d four times, .. j 256 times.
LongText(n) ==
    <<Run("a", n), Run("b", 1), Run("c", 2), Run("d", 4), Run("e", 8),
      Run("f", 16), Run("g", 32), Run("h", 64), Run("i", 128), Run("j", 256)>>

LongContents ==
    {<<>>} \cup {LongText(n) : n \in {U16Modulus - 1, U16Modulus, U16Modulus + 1}}

\* count_char applied to n copies of c: n times counter += 1 on the u16.
count_run(a, c, n) ==
    IF c \in DOMAIN a THEN [a EXCEPT ![c] = (@ + n) % U16Modulus]
    ELSE Put(a, c, n % U16Modulus)

\* The chars() fold of encode_string over runs; the compressed string is
\* kept as runs [code |-> the code, n |-> its copies] as well.
RECURSIVE compress_runs(_, _)
compress_runs(runs, m) ==
    IF runs = <<>> THEN Some(<<>>)
    ELSE IF runs[1].ch \notin DOMAIN m THEN None
    ELSE LET rest == compress_runs(Tail(runs), m)
         IN  IF rest = None THEN None
             ELSE Some(<<[code |-> m[runs[1].ch], n |-> runs[1].n]>> \o rest[1])

RECURSIVE CodeBits(_)
CodeBits(cruns) ==
    IF cruns = <<>> THEN 0
    ELSE Len(cruns[1].code) * cruns[1].n + CodeBits(Tail(cruns))

InitLong ==
    /\ content \in LongContents
    /\ Started

EncodeLong ==
    /\ pc = "main"
    /\ action' = "encode"
    /\ bits' = TotalLen(content) * 8
    /\ acc' = EmptyMap
    /\ i' = 0
    /\ pc' = "count"
    /\ UNCHANGED <<heapVars, testVars, before, content, iter, enc, compressed,
                   decoded, panic>>

\* One run of the fold.  When the u16 counter passes 65535 a release build
\* wraps it and a debug build panics.
CountRun ==
    /\ pc = "count"
    /\ i < Len(content)
    /\ LET r == content[i + 1]
           cur == IF r.ch \in DOMAIN acc THEN acc[r.ch] ELSE 0
       IN  \/ /\ acc' = count_run(acc, r.ch, r.n)
              /\ i' = i + 1
              /\ UNCHANGED <<pc, panic>>
           \/ /\ cur + r.n >= U16Modulus
              /\ pc' = "panic"
              /\ panic' = "attempt to add with overflow (huffman.rs:60)"
              /\ UNCHANGED <<acc, i>>
    /\ UNCHANGED <<heapVars, testVars, before, action, content, iter, enc,
                   compressed, bits, decoded>>

EncodeStringLong ==
    /\ pc = "built"
    /\ IF enc = None
       THEN /\ pc' = "panic"
            /\ panic' = "unwrap on None (huffman.rs:130)"
            /\ UNCHANGED <<compressed, bits>>
       ELSE LET compressed_content == compress_runs(content, enc[1].encodings)
            IN  IF compressed_content = None
                THEN /\ pc' = "panic"
                     /\ panic' = "unwrap on None (huffman.rs:133)"
                     /\ UNCHANGED <<compressed, bits>>
                ELSE /\ compressed' = compressed_content
                     /\ bits' = CodeBits(compressed_content[1])
                     /\ pc' = "encoded"
                     /\ UNCHANGED panic
    /\ UNCHANGED <<heapVars, testVars, before, i, action, content, acc, iter,
                   enc, decoded>>

NextLong ==
    \/ EncodeLong
    \/ CountRun
    \/ Counted
    \/ \E c \in LongSymbols : InsertLeaf(c)
    \/ Filled
    \/ Merge
    \/ BuildEncoding
    \/ EncodeStringLong
    \/ Decode

SpecLong == InitLong /\ [][NextLong]_vars

\* ------------------------------------------ one call on any valid heap
\* The arrays insert and pop can leave behind: those in heap order (any such
\* array is what inserting its elements in array order builds).
IsHeap(h, ht) ==
    \A k \in 1..(Len(h) - 1) : ~comp(ht, At(h, k), At(h, (k - 1) \div 2))

ValidHeaps(ht) == {h \in SeqsUpTo(HeapItems, MaxHeap) : IsHeap(h, ht)}

RECURSIVE BagOf(_)
BagOf(h) ==
    IF h = <<>> THEN EmptyBag ELSE SetToBag({h[1]}) (+) BagOf(Tail(h))

InitCall ==
    /\ heap_type \in HeapTypes
    /\ heap \in ValidHeaps(heap_type)
    /\ before = heap
    /\ stored = BagOf(heap)
    /\ op = "new" /\ ret = None
    /\ pc = "call" /\ i = 0
    /\ v = <<>> /\ res = <<>>
    /\ NoEncode

CallInsert(item) ==
    /\ pc = "call"
    /\ op = "new"
    /\ before' = heap
    /\ heap' = insert(heap, heap_type, item)
    /\ op' = "insert" /\ ret' = None
    /\ stored' = stored (+) SetToBag({item})
    /\ UNCHANGED <<heap_type, pc, i, testVars, encVars>>

CallPop ==
    /\ pc = "call"
    /\ op = "new"
    /\ before' = heap
    /\ LET r == pop(heap, heap_type)
       IN  /\ heap' = r.heap
           /\ ret' = r.ret
           /\ stored' = IF r.ret = None THEN stored
                        ELSE stored (-) SetToBag({r.ret[1]})
    /\ op' = "pop"
    /\ UNCHANGED <<heap_type, pc, i, testVars, encVars>>

NextCall ==
    \/ \E item \in HeapItems : CallInsert(item)
    \/ CallPop

SpecCall == InitCall /\ [][NextCall]_vars

\* ---------------------------------- tests::test_index, tests::test_child
InitIndex ==
    /\ heap_type = "Min" /\ heap = <<>>
    /\ op = "new" /\ ret = None /\ stored = EmptyBag
    /\ before = <<>>
    /\ v = <<>> /\ res = <<>>
    /\ pc = "index"
    /\ i \in 0..MaxIndex
    /\ NoEncode

\* heap.parent_index(i)
ParentIndex ==
    /\ pc = "index"
    /\ ret' = parent_index(i)
    /\ op' = "parent_index"
    /\ UNCHANGED <<heap_type, heap, stored, pc, i, testVars, before, encVars>>

\* heap.child_index(i, side)
ChildIndex(side) ==
    /\ pc = "index"
    /\ ret' = Some(child_index(i, side))
    /\ op' = IF side = "Left" THEN "child_index_left" ELSE "child_index_right"
    /\ UNCHANGED <<heap_type, heap, stored, pc, i, testVars, before, encVars>>

NextIndex ==
    \/ ParentIndex
    \/ \E side \in {"Left", "Right"} : ChildIndex(side)

SpecIndex == InitIndex /\ [][NextIndex]_vars

\* ----------------------------------------------------------------- claims
\* a is strictly preferred over b by the policy ht (by frequency).
Preferred(ht, a, b) == IF ht = "Min" THEN a.f < b.f ELSE a.f > b.f

\* C1: after any sequence of insert and pop calls, peek() returns None
\* exactly when nothing is stored, and otherwise a stored element over which
\* the policy prefers no stored element (a minimum for Min, a maximum for Max).
C1_PeekExtremal ==
    op = "peek" =>
        /\ (ret = None) <=> (BagToSet(stored) = {})
        /\ ret # None =>
             /\ BagIn(ret[1], stored)
             /\ \A x \in BagToSet(stored) : ~Preferred(heap_type, x, ret[1])

C1_Witness ==
    /\ op = "peek"
    /\ Len(heap) >= 3
    /\ ret # None
    /\ \E x \in BagToSet(stored) : Preferred(heap_type, ret[1], x)
    /\ \E x \in BagToSet(stored) : x # ret[1] /\ x.f = ret[1].f

\* C2: N values inserted in any order into an empty heap come back from N
\* consecutive pops as exactly those values, in non-decreasing order for Min
\* and non-increasing order for Max, and the heap is then empty.
C2_PopsSorted ==
    /\ pc # "panic"
    /\ pc = "t_done" =>
         /\ Len(res) = Len(v)
         /\ \A x \in HeapItems : Count(res, x) = Count(v, x)
         /\ \A k \in 1..(Len(res) - 1) : ~Preferred(heap_type, res[k + 1], res[k])
         /\ heap = <<>>

C2_Witness ==
    /\ pc = "t_done"
    /\ Len(v) = MaxN
    /\ heap_type = "Max"
    /\ res # v
    /\ \E k \in 1..(Len(v) - 1) : v[k].f < v[k + 1].f
    /\ \E k \in 1..(Len(v) - 1) : v[k].f > v[k + 1].f
    /\ \E j, k \in 1..Len(v) : j # k /\ v[j].f = v[k].f

C4_PopEdges ==
    [][(op' = "pop") =>
         /\ (Len(heap) = 0 => ret' = None /\ heap' = <<>> /\ heap_type' = heap_type)
         /\ (Len(heap) = 1 => ret' = Some(heap[1]) /\ heap' = <<>>)]_vars

C4_Witness ==
    /\ op = "pop"
    /\ ret # None
    /\ heap = <<>>
    /\ BagToSet(stored) = {}

\* C5: decoding the result of encoding S returns exactly S.
C5_RoundTrip ==
    (action = "decode" /\ compressed # None) => decoded = Some(content)

IsPrefix(a, b) == Len(a) <= Len(b) /\ SubSeq(b, 1, Len(a)) = a

PrefixFree(m) ==
    \A x, y \in DOMAIN m : x # y => ~IsPrefix(m[x], m[y])

\* C6: no code of the table build_huffman_encoding returns is a prefix of
\* the code of another symbol.
C6_PrefixFree ==
    enc # None => PrefixFree(enc[1].encodings)

C6_Witness ==
    /\ enc # None
    /\ Cardinality(DOMAIN enc[1].encodings) = 4
    /\ \E x \in DOMAIN enc[1].encodings : Len(enc[1].encodings[x]) = 3

\* C7: every code of a derived table is non-empty, and an input with one
\* distinct symbol gives that symbol the code "0", so that n copies of it
\* encode to n bits.
C7_CodesNonEmpty ==
    enc # None =>
        /\ \A x \in DOMAIN enc[1].encodings : Len(enc[1].encodings[x]) > 0
        /\ \A x \in Symbols :
             (\A k \in 1..Len(content) : content[k] = x) =>
                 /\ enc[1].encodings[x] = <<"0">>
                 /\ compressed # None => bits = Len(content)

\* C8: encoding the empty input completes normally with a bit count of zero.
C8_EmptyEncodes ==
    (content = <<>> /\ action = "encode") =>
        /\ pc # "panic"
        /\ pc = "encoded" => bits = 0

\* C9: build_huffman_encoding returns None exactly when the input holds no
\* symbol, and otherwise Some of a code table and a tree.
C9_NoneIffEmpty ==
    (pc = "built") =>
        /\ (enc = None) <=> (content = <<>>)
        /\ enc # None =>
             /\ DOMAIN enc[1].encodings # {}
             /\ size(enc[1].tree.heap) = 1

C9_Witness ==
    /\ pc = "built"
    /\ content = <<>>
    /\ enc = None

\* C10: for the frequencies {a: 4, b: 3, c: 2}, whatever the order in which
\* the leaves are inserted, a's code has length 1 and b's and c's length 2.
C10_ScenarioLengths ==
    (pc = "built") =>
        /\ enc # None
        /\ Len(enc[1].encodings["a"]) = 1
        /\ Len(enc[1].encodings["b"]) = 2
        /\ Len(enc[1].encodings["c"]) = 2

C10_Witness ==
    /\ pc = "built"
    /\ content = ScenarioText
    /\ enc # None
    /\ DOMAIN enc[1].encodings = {"a", "b", "c"}

\* C11: the frequency recorded for a symbol is the number of its
\* occurrences in the input, whatever the length of the input (65536 or more
\* occurrences included), and the empty input gives the empty mapping.
C11_ExactFrequencies ==
    (action = "encode" /\ pc \notin {"main", "count"}) =>
        /\ panic # "attempt to add with overflow (huffman.rs:60)"
        /\ DOMAIN acc = {c \in LongSymbols : Occurrences(content, c) > 0}
        /\ \A c \in DOMAIN acc : acc[c] = Occurrences(content, c)

\* C12: for an input of more than one distinct symbol the encoded output
\* has at most 8 bits per byte of the input.
C12_BitsBounded ==
    (pc = "encoded" /\ Cardinality(DOMAIN acc) > 1) =>
        bits <= 8 * TotalLen(content)

\* The internal nodes of the tree n, and of the trees in the queue h.  Every
\* iteration of the merge loop makes exactly one.
RECURSIVE Internals(_)
Internals(n) ==
    IF n.ch # None THEN 0
    ELSE 1 + (IF n.l # None THEN Internals(n.l[1]) ELSE 0)
           + (IF n.r # None THEN Internals(n.r[1]) ELSE 0)

RECURSIVE InternalsOf(_)
InternalsOf(h) ==
    IF h = <<>> THEN 0 ELSE Internals(h[1]) + InternalsOf(Tail(h))

\* C13: with k >= 1 distinct symbols the merge loop ends after exactly k - 1
\* iterations with one node in the queue: the queue holds k nodes less one
\* per iteration done, and neither pop of an iteration returns None.
C13_MergeCount ==
    LET k == Cardinality(DOMAIN acc)
    IN  /\ pc = "merge" =>
             /\ size(heap) = k - InternalsOf(heap)
             /\ size(heap) > 1 =>
                  /\ pop(heap, heap_type).ret # None
                  /\ pop(pop(heap, heap_type).heap, heap_type).ret # None
        /\ (pc = "built" /\ k >= 1) =>
             /\ enc # None
             /\ size(enc[1].tree.heap) = 1
             /\ InternalsOf(enc[1].tree.heap) = k - 1

C13_Witness ==
    /\ pc = "built"
    /\ Cardinality(DOMAIN acc) = 4
    /\ enc # None
    /\ InternalsOf(enc[1].tree.heap) = 3

RECURSIVE SumF(_)
SumF(h) == IF h = <<>> THEN 0 ELSE h[1].f + SumF(Tail(h))

\* Every internal node of the tree n has the frequency of its two children.
RECURSIVE SumsChildren(_)
SumsChildren(n) ==
    IF n.ch # None THEN TRUE
    ELSE /\ n.l # None /\ n.r # None
         /\ n.f = n.l[1].f + n.r[1].f
         /\ SumsChildren(n.l[1])
         /\ SumsChildren(n.r[1])

\* C14: the frequencies of the nodes in the queue add up to the same sum
\* before and after every merge, the number of symbols of the input, which
\* is therefore the frequency of the final root; and every internal node has
\* the sum of its children's frequencies.
C14_FrequencyConserved ==
    /\ pc = "merge" =>
         /\ SumF(heap) = TotalLen(content)
         /\ \A k \in 1..Len(heap) : SumsChildren(heap[k])
    /\ (pc = "built" /\ enc # None) =>
         /\ enc[1].tree.heap[1].f = TotalLen(content)
         /\ SumsChildren(enc[1].tree.heap[1])

\* The percolate-up of the specification: the item is appended and swapped
\* with its parent while it is strictly preferred over it; the walk stops at
\* the root or at the first parent it is not preferred over.
RECURSIVE SiftUp(_, _, _)
SiftUp(h, ht, k) ==
    IF k = 0 THEN h
    ELSE LET p == (k - 1) \div 2
         IN  IF Preferred(ht, h[k + 1], h[p + 1])
             THEN SiftUp([h EXCEPT ![k + 1] = h[p + 1], ![p + 1] = h[k + 1]], ht, p)
             ELSE h

SpecInsert(h, ht, item) == SiftUp(Append(h, item), ht, Len(h))

\* C15: for every valid heap and every item, the array after insert is the
\* array of the specified percolate-up, which stops at the first non-swap.
C15_InsertRefines ==
    (pc = "call" /\ op = "insert") =>
        \E item \in HeapItems :
            /\ stored = BagOf(before) (+) SetToBag({item})
            /\ heap = SpecInsert(before, heap_type, item)

\* The item went up one level and met a parent it is not preferred over; the
\* implementation walked on to the root.
C15_Witness ==
    /\ pc = "call" /\ op = "insert"
    /\ Len(heap) = 5
    /\ \E item \in HeapItems :
         /\ stored = BagOf(before) (+) SetToBag({item})
         /\ heap[2] = item
         /\ heap[5] = before[2]
         /\ heap[5] # item
         /\ heap[1] = before[1]

\* The extract-top of the specification from position k on: the arrays left
\* by swapping with the child the policy prefers while that child is strictly
\* preferred (either child when the two tie), stopping when there is no child
\* or no swap.
RECURSIVE SiftDown(_, _, _)
SiftDown(h, ht, k) ==
    LET children == {c \in {2 * k + 1, 2 * k + 2} : c < Len(h)}
        best == {c \in children :
                    \A d \in children : ~Preferred(ht, h[d + 1], h[c + 1])}
    IN  IF children = {} THEN {h}
        ELSE UNION {IF Preferred(ht, h[c + 1], h[k + 1])
                    THEN SiftDown([h EXCEPT ![k + 1] = h[c + 1],
                                            ![c + 1] = h[k + 1]], ht, c)
                    ELSE {h} : c \in best}

\* The last element moved to index 0, every other element keeping its index.
SpecPop(h, ht) ==
    SiftDown([k \in 1..(Len(h) - 1) |-> IF k = 1 THEN h[Len(h)] ELSE h[k]], ht, 0)

\* C16: for every valid heap of two or more elements pop returns the element
\* at index 0 and leaves the array of the specified extract-top.
C16_PopRefines ==
    (pc = "call" /\ op = "pop" /\ Len(before) >= 2) =>
        /\ ret = Some(before[1])
        /\ heap \in SpecPop(before, heap_type)

\* The element moved to the root is not swapped at all, and the root has
\* grandchildren for the implementation to walk down to.
C16_Witness ==
    /\ pc = "call" /\ op = "pop"
    /\ Len(before) = 5
    /\ heap = <<before[5]>> \o SubSeq(before, 2, 4)
    /\ \E j, k \in 1..Len(heap) : heap[j].f # heap[k].f

\* The place of x in s, for an x that s holds.
Pos(s, x) == CHOOSE k \in 1..Len(s) : s[k] = x

C18_Conserved ==
    /\ [](pc = "heap" =>
            /\ BagOf(heap) = stored
            /\ op = "size" => ret = Some(BagCardinality(stored)))
    /\ [][op' \in {"peek", "size"} =>
            /\ heap' = heap
            /\ heap_type' = heap_type
            /\ stored' = stored]_vars

C18_Witness ==
    /\ pc = "heap"
    /\ op = "size"
    /\ ret = Some(3)
    /\ \E x \in HeapItems : CopiesIn(x, stored) = 2

\* The symbols of the leaves of the tree n, left to right.
RECURSIVE LeafChars(_)
LeafChars(n) ==
    IF n.ch # None THEN <<n.ch[1]>>
    ELSE (IF n.l # None THEN LeafChars(n.l[1]) ELSE <<>>)
         \o (IF n.r # None THEN LeafChars(n.r[1]) ELSE <<>>)

\* C19: for a non-empty input the keys of the code table are the distinct
\* symbols of the input, each the symbol of exactly one leaf of the tree, so
\* the lookup of a symbol's code in encode_string never fails.
C19_TableCoversSymbols ==
    LET symbols == {content[k] : k \in 1..Len(content)}
    IN  /\ (pc = "built" /\ content # <<>>) => enc # None
        /\ enc # None =>
             /\ DOMAIN enc[1].encodings = symbols
             /\ \A c \in symbols : Count(LeafChars(enc[1].tree.heap[1]), c) = 1
             /\ Len(LeafChars(enc[1].tree.heap[1])) = Cardinality(symbols)
        /\ panic # "unwrap on None (huffman.rs:133)"

C19_Witness ==
    /\ pc = "encoded"
    /\ Cardinality(DOMAIN enc[1].encodings) = 4
    /\ compressed # None
    /\ Len(compressed[1]) > Len(content)

\* C20: parent_index(0) is None and parent_index(i) is Some(floor((i - 1) / 2))
\* for i >= 1, never below zero; child_index(i, Left) is 2i + 1 and
\* child_index(i, Right) is 2i + 2, and the parent of either child of i is i.
C20_IndexArithmetic ==
    pc = "index" =>
        /\ op = "parent_index" =>
             /\ i = 0 => ret = None
             /\ i >= 1 => ret = Some((i - 1) \div 2) /\ ret[1] >= 0
        /\ op = "child_index_left" =>
             /\ ret = Some(2 * i + 1)
             /\ parent_index(ret[1]) = Some(i)
        /\ op = "child_index_right" =>
             /\ ret = Some(2 * i + 2)
             /\ parent_index(ret[1]) = Some(i)

\* test_index: parent_index(8) is 3.
C20_Witness ==
    /\ pc = "index"
    /\ op = "parent_index"
    /\ i = 8
    /\ ret = Some(3)

====
